---- MODULE Spec2Model ----
(***************************************************************************)
(* Lifecycle of the sandbox server of workspaces-rs                        *)
(* (workspaces/src/network/server.rs): port reservation through per-port   *)
(* lock files, spawn-new and connect-to-existing construction, explicit    *)
(* lock release and teardown.  Several launchers on one host run the       *)
(* lifecycle concurrently; the lock files (advisory flock locks of the     *)
(* host) and the ports bound by the sandbox nodes are the shared state.    *)
(***************************************************************************)
EXTENDS Integers, FiniteSets, Sequences, TLC

\* ------------------------------------------------------------------ bounds
NumProcs == 1          \* launchers followed step by step through their whole life
NumPorts == 2          \* ports the launchers contend for
MaxUnlockCalls == 2    \* unlock_lockfiles calls made on one server
MaxSetterCalls == 2    \* setter calls made on one NetworkBuilder
MaxApplies == 3        \* runs of supress_sandbox_logs_if_required in one process

Procs == 1..NumProcs
Ports == 1..NumPorts

\* Option::None of a port, a lock file handle or a child handle.
None == 0

\* The other launchers of the host, however many: they are followed only
\* through the port locks they take and release.
Rival == 0

\* The two reservations of run_new: the local pairs (rpc_port, rpc_port_lock)
\* and (net_port, net_port_lock).
Slots == {"rpc", "net"}

\* ------------------------------------------------------------------ state
VARIABLES
    pc,             \* position of each launcher in connect / run_new / the server's life
    call,           \* the constructor the launcher called: "connect" or "run_new"
    result,         \* what connect / run_new returned: "pending", "Ok" or an error kind
    home_dir,       \* run_new local home_dir: None, or the id of the fresh directory
    port,           \* acquire_unused_port local `port`: the sampled candidate
    rpc_port,       \* run_new local rpc_port
    net_port,       \* run_new local net_port
    rpc_port_lock,  \* the RPC lock file handle (local, then field): None or its port
    net_port_lock,  \* the peer lock file handle (local, then field): None or its port
    server,         \* the SandboxServer returned to the caller, or NoServer
    flocks,         \* the host's lock table: <<owner, slot, port>> per held flock
    child,          \* the sandbox node process each launcher started
    unlockCalls,    \* number of unlock_lockfiles calls made on the server
    unlockOps,      \* number of File::unlock calls made on each lock handle
    unlockResult,   \* what the last unlock_lockfiles call returned
    killAttempts,   \* number of Child::kill calls made by the destructor
    panicked,       \* whether the destructor panicked
    runHeld,        \* the flocks the launcher held when sandbox::run was invoked
    args,           \* the arguments of the connect call: [rpc_addr, validator_key]
    message,        \* the message of the error connect / run_new returned
    env,            \* the process environment: the two sandbox log variables
    env0,           \* the environment before supress_sandbox_logs_if_required ever ran
    envOnce,        \* the environment right after its first run
    applied,        \* number of supress_sandbox_logs_if_required runs
    bpc,            \* life of a NetworkBuilder: "none", "building", "future", "called", "resolved"
    builder,        \* the NetworkBuilder: [name, rpc_addr, validator_key]
    lastOp,         \* the last operation made on the builder
    setterCalls,    \* number of setter calls made on the builder
    fromBuilderCalls, \* number of from_builder calls made by the builder's future
    received,       \* the builder from_builder was called with
    returned,       \* what from_builder returned
    output          \* what the builder's future resolved to

\* The launchers' and the host's state.
serverVars == <<pc, call, result, home_dir, port, rpc_port, net_port, rpc_port_lock,
                net_port_lock, server, flocks, child, unlockCalls, unlockOps,
                unlockResult, killAttempts, panicked, runHeld, args, message>>

\* The process environment and its history.
envVars == <<env, env0, envOnce, applied>>

builderVars == <<bpc, builder, lastOp, setterCalls, fromBuilderCalls, received,
                 returned, output>>

vars == <<serverVars, envVars, builderVars>>

\* ------------------------------------------------------------------ values
\* Strings that matter as URLs are sequences of tokens; the port token is a number.
DEFAULT_RPC_URL == <<"http", "://", "localhost">>

\* The endpoints callers hand to connect.
Endpoints == { <<"http", "://", "localhost", ":", 1>>,
               <<"http", "://", "localhost">>,
               <<"not a url">>,
               <<"http", "//", "localhost">> }

\* ValidatorKey: HomeDir(path) or Known(account_id, secret_key); <<>> before any is set.
HomeDir(d) == <<"HomeDir", d>>
Known(k) == <<"Known", k>>
KnownKeys == {Known(1)}

\* The credentials callers hand to connect: a known key, or the home directory
\* of a node somebody else started.
ExternalHome == NumProcs + 1
CallerKeys == KnownKeys \cup {HomeDir(ExternalHome)}

\* Before connect is called there are no arguments.
NoArgs == [rpc_addr |-> <<>>, validator_key |-> <<>>]

\* Error messages are token sequences too; <<>> is an error without a message.
NoMessage == <<>>

\* s occurs in msg as a contiguous run of tokens.
Contains(msg, s) ==
    \E i \in 1..(Len(msg) - Len(s) + 1) : SubSeq(msg, i, i + Len(s) - 1) = s

NoUrl == [ok |-> FALSE, scheme |-> "", host |-> "", port |-> None]

\* Url::parse: scheme "://" host [":" port]; anything else is a parse error.
\* (No port of the model is the default port of its scheme, which Url drops.)
UrlParse(s) ==
    IF Len(s) \in {3, 5} /\ s[1] \in {"http", "https"} /\ s[2] = "://"
       /\ (Len(s) = 5 => s[4] = ":")
    THEN [ok |-> TRUE, scheme |-> s[1], host |-> s[3],
          port |-> IF Len(s) = 5 THEN s[5] ELSE None]
    ELSE NoUrl

\* Url::to_string: the serialization, which ends with the root path "/".
UrlToString(u) ==
    <<u.scheme, "://", u.host>>
        \o (IF u.port # None THEN <<":", u.port>> ELSE <<>>) \o <<"/">>

\* format!("{}:{}", DEFAULT_RPC_URL, rpc_port)
FormatRpcAddr(p) == DEFAULT_RPC_URL \o <<":", p>>

NoServer == [validator_key |-> <<>>, rpc_addr |-> NoUrl, net_port |-> None,
             rpc_port_lock |-> None, net_port_lock |-> None, process |-> None]

\* SandboxServer::rpc_port
RpcPortOf(s) == s.rpc_addr.port

\* SandboxServer::net_port
NetPortOf(s) == s.net_port

\* SandboxServer::rpc_addr
RpcAddrOf(s) == UrlToString(s.rpc_addr)

\* ------------------------------------------------------------------ the host
\* Ports on which a sandbox node is listening.
BoundPorts ==
    UNION { {rpc_port[q], net_port[q]} : q \in {r \in Procs : child[r] = "listening"} }

\* pick_unused_port: the ports it can return (those nobody has bound).
FreePorts == Ports \ BoundPorts

\* Ports whose lock file is exclusively locked.
LockedPorts(F) == { f[3] : f \in F }

\* The flocks held through the lock file handles of launcher pr.
HeldBy(F, pr) == { f \in F : f[1] = pr }

\* A lock that only other processes' handles contend for (a per-process lock).
TryLockExclusivePerProcess(F, pr, p) == p \notin LockedPorts(F \ HeldBy(F, pr))

\* A lock attempt that succeeds whoever holds the lock.
TryLockExclusiveAlways(F, pr, p) == TRUE

\* File::try_lock_exclusive by launcher pr on a fresh handle of the lock file
\* of port p: flock(LOCK_EX | LOCK_NB) succeeds exactly when no open handle,
\* of this launcher or another, holds the lock.
TryLockExclusive(F, pr, p) == p \notin LockedPorts(F)

\* The lock is not kept: the handle is closed as acquire_unused_port returns.
LockedNotKept(F, pr, slot, p) == F

\* The lock table once the handle of (pr, slot) holds the lock of port p.
Locked(F, pr, slot, p) == F \cup {<<pr, slot, p>>}

\* Closing a lock file handle (the File is dropped) releases the flock it holds.
CloseFile(F, pr, slot) == { f \in F : ~(f[1] = pr /\ f[2] = slot) }

\* File::unlock on a handle: flock(LOCK_UN); ok is whether the call succeeds.
Unlock(F, pr, slot, ok) == IF ok THEN CloseFile(F, pr, slot) ELSE F

\* ------------------------------------------------------------------ environment
\* An environment variable is unset (<<>>) or holds one OS string, which is
\* valid Unicode or not.
Unset == <<>>
Str(v) == <<[unicode |-> TRUE, text |-> v]>>
Raw(v) == <<[unicode |-> FALSE, text |-> v]>>

SANDBOX_LOG_SUPPRESSED == "near=error,stats=error,network=error"

\* std::env::var: Ok(text) when the variable is set to valid Unicode, an error
\* when it is unset or its value is not valid Unicode.
EnvVar(v) ==
    IF v # Unset /\ v[1].unicode THEN [ok |-> TRUE, val |-> v[1].text]
    ELSE [ok |-> FALSE, val |-> ""]

\* A policy that keeps the logs only for the value "1".
supress_sandbox_logs_unless_one(e) ==
    LET got == EnvVar(e.NEAR_ENABLE_SANDBOX_LOG) IN
    IF got.ok /\ got.val = "1"
    THEN e
    ELSE [e EXCEPT !.NEAR_SANDBOX_LOG = Str(SANDBOX_LOG_SUPPRESSED)]

\* supress_sandbox_logs_if_required on environment e
supress_sandbox_logs_if_required(e) ==
    LET got == EnvVar(e.NEAR_ENABLE_SANDBOX_LOG) IN
    IF got.ok /\ got.val # "0"
    THEN e
    ELSE [e EXCEPT !.NEAR_SANDBOX_LOG = Str(SANDBOX_LOG_SUPPRESSED)]

\* One run of supress_sandbox_logs_if_required on the process environment.
SupressStep ==
    /\ env' = supress_sandbox_logs_if_required(env)
    /\ envOnce' = IF applied = 0 THEN env' ELSE envOnce
    /\ applied' = applied + 1
    /\ UNCHANGED env0

\* The environment of a process whose caller set neither variable.
DefaultEnv == [NEAR_ENABLE_SANDBOX_LOG |-> Unset, NEAR_SANDBOX_LOG |-> Unset]

\* ------------------------------------------------------------------ Init
\* No launcher has called anything yet and the lock table is empty.
InitServer ==
    /\ pc = [pr \in Procs |-> "idle"]
    /\ call = [pr \in Procs |-> "none"]
    /\ result = [pr \in Procs |-> "pending"]
    /\ home_dir = [pr \in Procs |-> None]
    /\ port = [pr \in Procs |-> None]
    /\ rpc_port = [pr \in Procs |-> None]
    /\ net_port = [pr \in Procs |-> None]
    /\ rpc_port_lock = [pr \in Procs |-> None]
    /\ net_port_lock = [pr \in Procs |-> None]
    /\ server = [pr \in Procs |-> NoServer]
    /\ flocks = {}
    /\ child = [pr \in Procs |-> "none"]
    /\ unlockCalls = [pr \in Procs |-> 0]
    /\ unlockOps = [pr \in Procs |-> [rpc |-> 0, net |-> 0]]
    /\ unlockResult = [pr \in Procs |-> "none"]
    /\ killAttempts = [pr \in Procs |-> 0]
    /\ panicked = [pr \in Procs |-> FALSE]
    /\ runHeld = [pr \in Procs |-> {}]
    /\ args = [pr \in Procs |-> NoArgs]
    /\ message = [pr \in Procs |-> NoMessage]

\* ------------------------------------------------------------------ NetworkBuilder
\* Option<T>: None is the empty sequence, Some(x) the sequence of x alone.
Nothing == <<>>
Some(x) == <<x>>

\* No builder yet (also: no builder received yet).
NoBuilder == [name |-> "", rpc_addr |-> Nothing, validator_key |-> Nothing]

\* Result<T>: a from_builder result carries a network or an error; the result
\* of the builder's future carries a Worker or an error.
NotReturned == [ok |-> FALSE, network |-> "", err |-> ""]
NoOutput == [ok |-> FALSE, worker |-> Nothing, err |-> ""]

InitBuilder ==
    /\ bpc = "none"
    /\ builder = NoBuilder
    /\ lastOp = "none"
    /\ setterCalls = 0
    /\ fromBuilderCalls = 0
    /\ received = NoBuilder
    /\ returned = NotReturned
    /\ output = NoOutput

Init ==
    /\ InitServer
    /\ InitBuilder
    /\ env = DefaultEnv
    /\ env0 = env
    /\ envOnce = env
    /\ applied = 0

\* ------------------------------------------------------------------ connect
\* The server connect builds from a parsed endpoint and the caller's key.
ConnectServer(url, key) ==
    [validator_key |-> key, rpc_addr |-> url, net_port |-> None,
     rpc_port_lock |-> None, net_port_lock |-> None, process |-> None]

\* An error message that leaves the endpoint out.
ConnectErrorMessageBare(addr) == <<"Invalid rpc_url">>

\* format!("Invalid rpc_url={rpc_addr}")
ConnectErrorMessage(addr) == <<"Invalid rpc_url=">> \o addr

\* SandboxServer::connect(rpc_addr, validator_key)
Connect(pr, addr, key) ==
    /\ pc[pr] = "idle"
    /\ call' = [call EXCEPT ![pr] = "connect"]
    /\ args' = [args EXCEPT ![pr] = [rpc_addr |-> addr, validator_key |-> key]]
    /\ LET url == UrlParse(addr) IN
         IF url.ok
         THEN /\ server' = [server EXCEPT ![pr] = ConnectServer(url, key)]
              /\ result' = [result EXCEPT ![pr] = "Ok"]
              /\ pc' = [pc EXCEPT ![pr] = "live"]
              /\ UNCHANGED message
         ELSE /\ result' = [result EXCEPT ![pr] = "InitFailure"]
              /\ message' = [message EXCEPT ![pr] = ConnectErrorMessage(addr)]
              /\ pc' = [pc EXCEPT ![pr] = "failed"]
              /\ UNCHANGED server
    /\ UNCHANGED <<home_dir, port, rpc_port, net_port, rpc_port_lock, net_port_lock,
                   flocks, child, unlockCalls, unlockOps, unlockResult,
                   killAttempts, panicked, runHeld>>
    /\ UNCHANGED <<envVars, builderVars>>

\* ------------------------------------------------------------------ run_new
\* An early return that leaks the lock file handles.
DropLocalsLeak(F, pr) == F

\* An early return that releases the peer lock only.
DropLocalsNetOnly(F, pr) == CloseFile(F, pr, "net")

\* The locals of run_new go out of scope on an early return: the lock file
\* handles acquired so far are closed.
DropLocals(F, pr) == CloseFile(CloseFile(F, pr, "net"), pr, "rpc")

\* run_new returns Err(kind) with message msg: `?` propagates and the locals
\* are dropped.
Fail(pr, kind, msg) ==
    /\ result' = [result EXCEPT ![pr] = kind]
    /\ message' = [message EXCEPT ![pr] = msg]
    /\ pc' = [pc EXCEPT ![pr] = "failed"]
    /\ flocks' = DropLocals(flocks, pr)
    /\ rpc_port_lock' = [rpc_port_lock EXCEPT ![pr] = None]
    /\ net_port_lock' = [net_port_lock EXCEPT ![pr] = None]

\* A run_new that reserves its two ports before it prepares the home directory.
RunNewThenPortsFirst(step) ==
    CASE step = "init_home_dir" -> "pick_rpc"
      [] step = "acquire_rpc_port" -> "pick_net"
      [] step = "acquire_net_port" -> "config"
      [] step = "set_sandbox_configs" -> "run"

\* The order of the statements of run_new: where it goes on after a step that
\* succeeded.
RunNewThen(step) ==
    CASE step = "init_home_dir" -> "config"
      [] step = "set_sandbox_configs" -> "pick_rpc"
      [] step = "acquire_rpc_port" -> "pick_net"
      [] step = "acquire_net_port" -> "run"

\* run_new, up to init_home_dir: supress_sandbox_logs_if_required, then
\* tempfile::tempdir, sandbox::init and its output.
InitHomeDir(pr, outcome) ==
    /\ pc[pr] = "idle"
    /\ SupressStep
    /\ call' = [call EXCEPT ![pr] = "run_new"]
    /\ IF outcome = "Ok"
       THEN /\ home_dir' = [home_dir EXCEPT ![pr] = pr]
            /\ pc' = [pc EXCEPT ![pr] = RunNewThen("init_home_dir")]
            /\ UNCHANGED <<result, message, flocks, rpc_port_lock, net_port_lock>>
       ELSE /\ Fail(pr, outcome, NoMessage)
            /\ UNCHANGED home_dir
    /\ UNCHANGED <<port, rpc_port, net_port, server, child, unlockCalls, unlockOps,
                   unlockResult, killAttempts, panicked, runHeld>>
    /\ UNCHANGED <<args, builderVars>>

\* run_new: crate::network::config::set_sandbox_configs(&home_dir)?
\* Its error, whatever its kind, is propagated as it is ("ConfigError").
SetSandboxConfigs(pr, ok) ==
    /\ pc[pr] = "config"
    /\ IF ok
       THEN /\ pc' = [pc EXCEPT ![pr] = RunNewThen("set_sandbox_configs")]
            /\ UNCHANGED <<result, message, flocks, rpc_port_lock, net_port_lock>>
       ELSE Fail(pr, "ConfigError", NoMessage)
    /\ UNCHANGED <<call, home_dir, port, rpc_port, net_port, server, child, unlockCalls,
                   unlockOps, unlockResult, killAttempts, panicked, runHeld>>
    /\ UNCHANGED <<args, envVars, builderVars>>

\* Positions inside the acquire_unused_port call that fills a slot.
PickPc(slot) == IF slot = "rpc" THEN "pick_rpc" ELSE "pick_net"
LockPc(slot) == IF slot = "rpc" THEN "lock_rpc" ELSE "lock_net"

\* An acquire_unused_port that reports the missing port as an I/O error.
NoPortsFreeAsIo == [kind |-> "Io", message |-> <<"no ports free">>]

\* The error of acquire_unused_port when pick_unused_port returns None.
NoPortsFree == [kind |-> "InitFailure", message |-> <<"no ports free">>]

\* acquire_unused_port, one turn of the loop up to the open lock file:
\* pick_unused_port returns picked (a port nobody has bound, or None when it
\* finds no free port), then File::create opens the port's lock file (created
\* is whether it succeeds).
PickPort(pr, slot, picked, created) ==
    /\ pc[pr] = PickPc(slot)
    /\ picked \in FreePorts \cup {None}
    /\ IF picked = None THEN
            /\ created
            /\ Fail(pr, NoPortsFree.kind, NoPortsFree.message)
            /\ UNCHANGED port
       ELSE IF ~created THEN
            /\ Fail(pr, "Io", <<"failed to create lockfile for port ", picked>>)
            /\ port' = [port EXCEPT ![pr] = picked]
       ELSE /\ port' = [port EXCEPT ![pr] = picked]
            /\ pc' = [pc EXCEPT ![pr] = LockPc(slot)]
            /\ UNCHANGED <<result, message, flocks, rpc_port_lock, net_port_lock>>
    /\ UNCHANGED <<call, home_dir, rpc_port, net_port, server, child, unlockCalls,
                   unlockOps, unlockResult, killAttempts, panicked, runHeld>>
    /\ UNCHANGED <<args, envVars, builderVars>>

\* A loop that tries the same lock file again when its lock is held.
OnContentionWait(slot) == LockPc(slot)

\* Where the loop of acquire_unused_port goes on when try_lock_exclusive fails:
\* the candidate is dropped and the next turn samples a port.
OnContention(slot) == PickPc(slot)

\* acquire_unused_port, the end of a turn: try_lock_exclusive on the candidate's
\* lock file; on success the loop breaks with (port, lockfile), otherwise the
\* file is dropped and the loop samples again.
TryLock(pr, slot) ==
    /\ pc[pr] = LockPc(slot)
    /\ IF TryLockExclusive(flocks, pr, port[pr])
       THEN /\ flocks' = Locked(flocks, pr, slot, port[pr])
            /\ IF slot = "rpc"
               THEN /\ rpc_port' = [rpc_port EXCEPT ![pr] = port[pr]]
                    /\ rpc_port_lock' = [rpc_port_lock EXCEPT ![pr] = port[pr]]
                    /\ pc' = [pc EXCEPT ![pr] = RunNewThen("acquire_rpc_port")]
                    /\ UNCHANGED <<net_port, net_port_lock>>
               ELSE /\ net_port' = [net_port EXCEPT ![pr] = port[pr]]
                    /\ net_port_lock' = [net_port_lock EXCEPT ![pr] = port[pr]]
                    /\ pc' = [pc EXCEPT ![pr] = RunNewThen("acquire_net_port")]
                    /\ UNCHANGED <<rpc_port, rpc_port_lock>>
       ELSE /\ pc' = [pc EXCEPT ![pr] = OnContention(slot)]
            /\ UNCHANGED <<flocks, rpc_port, rpc_port_lock, net_port, net_port_lock>>
    /\ UNCHANGED <<call, result, home_dir, port, server, child, unlockCalls, unlockOps,
                   unlockResult, killAttempts, panicked, runHeld>>
    /\ UNCHANGED <<args, message, envVars, builderVars>>

\* A server built with the two ports in each other's place.
SpawnServerSwapped(pr) ==
    [validator_key |-> HomeDir(home_dir[pr]),
     rpc_addr |-> UrlParse(FormatRpcAddr(net_port[pr])),
     net_port |-> rpc_port[pr],
     rpc_port_lock |-> rpc_port_lock[pr],
     net_port_lock |-> net_port_lock[pr],
     process |-> pr]

\* The server run_new returns.
SpawnServer(pr) ==
    [validator_key |-> HomeDir(home_dir[pr]),
     rpc_addr |-> UrlParse(FormatRpcAddr(rpc_port[pr])),
     net_port |-> net_port[pr],
     rpc_port_lock |-> rpc_port_lock[pr],
     net_port_lock |-> net_port_lock[pr],
     process |-> pr]

\* run_new from the endpoint on: sandbox::run(&home_dir, rpc_port, net_port),
\* then the server is built around the child and the two lock file handles.
SandboxRun(pr, ok) ==
    /\ pc[pr] = "run"
    /\ runHeld' = [runHeld EXCEPT ![pr] = HeldBy(flocks, pr)]
    /\ IF ok
       THEN /\ child' = [child EXCEPT ![pr] = "running"]
            /\ server' = [server EXCEPT ![pr] = SpawnServer(pr)]
            /\ rpc_port_lock' = [rpc_port_lock EXCEPT ![pr] = None]
            /\ net_port_lock' = [net_port_lock EXCEPT ![pr] = None]
            /\ result' = [result EXCEPT ![pr] = "Ok"]
            /\ pc' = [pc EXCEPT ![pr] = "live"]
            /\ UNCHANGED <<flocks, message>>
       ELSE /\ Fail(pr, "RunFailure", NoMessage)
            /\ UNCHANGED <<child, server>>
    /\ UNCHANGED <<call, home_dir, port, rpc_port, net_port, unlockCalls, unlockOps,
                   unlockResult, killAttempts, panicked>>
    /\ UNCHANGED <<args, envVars, builderVars>>

\* ------------------------------------------------------------------ unlock_lockfiles
\* A read that leaves the handle in the field (as_ref instead of take).
TakeKeeps(field) == field

\* Option::take leaves None in the field it reads.
Take(field) == None

\* The `?` after File::unlock: the function returns as soon as an unlock fails.
ReturnsEarly(failed) == failed

\* An unlock_lockfiles that goes on to the peer lock after the RPC unlock failed
\* and reports the first error at the end.
unlock_lockfiles_both(s, F, ops, pr, rpcOk, netOk) ==
    LET hasRpc == s.rpc_port_lock # None
        hasNet == s.net_port_lock # None
        F1   == IF hasRpc THEN CloseFile(F, pr, "rpc") ELSE F
        F2   == IF hasNet THEN CloseFile(F1, pr, "net") ELSE F1
    IN  [server |-> [s EXCEPT !.rpc_port_lock = None, !.net_port_lock = None],
         flocks |-> F2,
         ops    |-> [rpc |-> ops.rpc + (IF hasRpc THEN 1 ELSE 0),
                     net |-> ops.net + (IF hasNet THEN 1 ELSE 0)],
         result |-> IF hasRpc /\ ~rpcOk THEN "Io_rpc_port"
                    ELSE IF hasNet /\ ~netOk THEN "Io_net_port" ELSE "Ok"]

\* An unlock_lockfiles that also forgets the peer port.
unlock_lockfiles_forgets_port(s, F, ops, pr, rpcOk, netOk) ==
    [server |-> [s EXCEPT !.rpc_port_lock = None, !.net_port_lock = None,
                          !.net_port = None],
     flocks |-> CloseFile(CloseFile(F, pr, "rpc"), pr, "net"),
     ops    |-> ops,
     result |-> "Ok"]

\* SandboxServer::unlock_lockfiles on server s of launcher pr, with lock table F
\* and unlock counters ops; rpcOk / netOk are the outcomes of the two File::unlock
\* calls, should they be made.  Each taken handle is dropped when its block ends.
unlock_lockfiles(s, F, ops, pr, rpcOk, netOk) ==
    LET hasRpc == s.rpc_port_lock # None
        s1   == IF hasRpc THEN [s EXCEPT !.rpc_port_lock = Take(s.rpc_port_lock)] ELSE s
        F1   == IF hasRpc THEN CloseFile(Unlock(F, pr, "rpc", rpcOk), pr, "rpc") ELSE F
        ops1 == IF hasRpc THEN [ops EXCEPT !.rpc = @ + 1] ELSE ops
        hasNet == s1.net_port_lock # None
        s2   == IF hasNet THEN [s1 EXCEPT !.net_port_lock = Take(s1.net_port_lock)] ELSE s1
        F2   == IF hasNet THEN CloseFile(Unlock(F1, pr, "net", netOk), pr, "net") ELSE F1
        ops2 == IF hasNet THEN [ops1 EXCEPT !.net = @ + 1] ELSE ops1
    IN  IF ReturnsEarly(hasRpc /\ ~rpcOk)
        THEN [server |-> s1, flocks |-> F1, ops |-> ops1, result |-> "Io_rpc_port"]
        ELSE IF ReturnsEarly(hasNet /\ ~netOk)
        THEN [server |-> s2, flocks |-> F2, ops |-> ops2, result |-> "Io_net_port"]
        ELSE [server |-> s2, flocks |-> F2, ops |-> ops2, result |-> "Ok"]

UnlockLockfiles(pr, rpcOk, netOk) ==
    /\ pc[pr] = "live"
    /\ unlockCalls[pr] < MaxUnlockCalls
    /\ LET r == unlock_lockfiles(server[pr], flocks, unlockOps[pr], pr, rpcOk, netOk) IN
         /\ server' = [server EXCEPT ![pr] = r.server]
         /\ flocks' = r.flocks
         /\ unlockOps' = [unlockOps EXCEPT ![pr] = r.ops]
         /\ unlockResult' = [unlockResult EXCEPT ![pr] = r.result]
    /\ unlockCalls' = [unlockCalls EXCEPT ![pr] = @ + 1]
    /\ UNCHANGED <<pc, call, result, home_dir, port, rpc_port, net_port, rpc_port_lock,
                   net_port_lock, child, killAttempts, panicked, runHeld>>
    /\ UNCHANGED <<args, message, envVars, builderVars>>

\* ------------------------------------------------------------------ Drop
\* A destructor that kills whether or not a process is owned.
DropKillsAlways(s) == TRUE

\* A destructor whose guard is inverted.
DropKillsInverted(s) == s.process = None

\* Drop::drop returns at once when no process is owned; otherwise it kills.
DropKills(s) == s.process # None

\* A teardown that leaves the lock file handles open.
DropFieldsLeak(F, pr) == F

\* A teardown that closes the RPC lock file handle only.
DropFieldsRpcOnly(F, pr) == CloseFile(F, pr, "rpc")

\* After Drop::drop the fields are dropped: the lock file handles still in the
\* server are closed.
DropFields(F, pr) == CloseFile(CloseFile(F, pr, "rpc"), pr, "net")

ChildAlive(pr) == child[pr] \in {"running", "listening"}

\* The server goes out of scope.  killOk is the outcome of Child::kill: it
\* succeeds on a live child; on a child that has already exited it returns Ok
\* or an error, and the destructor unwraps the error (a panic).
DropServer(pr, killOk) ==
    /\ pc[pr] = "live"
    /\ ChildAlive(pr) => killOk
    /\ IF DropKills(server[pr])
       THEN /\ killAttempts' = [killAttempts EXCEPT ![pr] = @ + 1]
            /\ child' = [child EXCEPT ![pr] = IF ChildAlive(pr) THEN "killed" ELSE @]
            /\ panicked' = [panicked EXCEPT ![pr] = ~killOk]
       ELSE /\ killOk
            /\ UNCHANGED <<killAttempts, child, panicked>>
    /\ flocks' = DropFields(flocks, pr)
    /\ server' = [server EXCEPT ![pr] = [@ EXCEPT !.rpc_port_lock = None,
                                                   !.net_port_lock = None]]
    /\ pc' = [pc EXCEPT ![pr] = "dropped"]
    /\ UNCHANGED <<call, result, home_dir, port, rpc_port, net_port, rpc_port_lock,
                   net_port_lock, unlockCalls, unlockOps, unlockResult, runHeld>>
    /\ UNCHANGED <<args, message, envVars, builderVars>>

\* ------------------------------------------------------------------ the sandbox node
\* The node binds the two ports it was started with; it exits when one of them
\* is already bound.
ChildBind(pr) ==
    /\ child[pr] = "running"
    /\ child' = [child EXCEPT ![pr] =
            IF {rpc_port[pr], net_port[pr]} \cap BoundPorts = {}
            THEN "listening" ELSE "exited"]
    /\ UNCHANGED <<pc, call, result, home_dir, port, rpc_port, net_port, rpc_port_lock,
                   net_port_lock, server, flocks, unlockCalls, unlockOps,
                   unlockResult, killAttempts, panicked, runHeld>>
    /\ UNCHANGED <<args, message, envVars, builderVars>>

\* The node exits on its own.
ChildExit(pr) ==
    /\ ChildAlive(pr)
    /\ child' = [child EXCEPT ![pr] = "exited"]
    /\ UNCHANGED <<pc, call, result, home_dir, port, rpc_port, net_port, rpc_port_lock,
                   net_port_lock, server, flocks, unlockCalls, unlockOps,
                   unlockResult, killAttempts, panicked, runHeld>>
    /\ UNCHANGED <<args, message, envVars, builderVars>>

\* ------------------------------------------------------------------ other launchers
\* Another launcher's acquire_unused_port returns port p: pick_unused_port gave
\* p at some earlier moment (every port has been free once, so any port can be
\* the candidate) and try_lock_exclusive on its lock file succeeds now.  (On
\* contention the rival samples again, which changes nothing.)
RivalAcquire(p) ==
    /\ TryLockExclusive(flocks, Rival, p)
    /\ flocks' = Locked(flocks, Rival, "rival", p)
    /\ UNCHANGED <<pc, call, result, home_dir, port, rpc_port, net_port, rpc_port_lock,
                   net_port_lock, server, child, unlockCalls, unlockOps,
                   unlockResult, killAttempts, panicked, runHeld>>
    /\ UNCHANGED <<args, message, envVars, builderVars>>

\* Another launcher releases the lock of port p (its launch failed, or it
\* called unlock_lockfiles, or its server was dropped).
RivalRelease(p) ==
    /\ <<Rival, "rival", p>> \in flocks
    /\ flocks' = flocks \ {<<Rival, "rival", p>>}
    /\ UNCHANGED <<pc, call, result, home_dir, port, rpc_port, net_port, rpc_port_lock,
                   net_port_lock, server, child, unlockCalls, unlockOps,
                   unlockResult, killAttempts, panicked, runHeld>>
    /\ UNCHANGED <<args, message, envVars, builderVars>>

\* ------------------------------------------------------------------ Next
InitOutcomes == {"Ok", "Io", "InitFailure"}
PickOutcomes == Ports \cup {None}

Next ==
    \/ \E p \in Ports : RivalAcquire(p)
    \/ \E p \in Ports : RivalRelease(p)
    \/ \E pr \in Procs :
            \/ \E addr \in Endpoints, key \in CallerKeys : Connect(pr, addr, key)
            \/ \E outcome \in InitOutcomes : InitHomeDir(pr, outcome)
            \/ \E ok \in BOOLEAN : SetSandboxConfigs(pr, ok)
            \/ \E slot \in Slots, picked \in PickOutcomes, created \in BOOLEAN :
                    PickPort(pr, slot, picked, created)
            \/ \E slot \in Slots : TryLock(pr, slot)
            \/ \E ok \in BOOLEAN : SandboxRun(pr, ok)
            \/ \E rpcOk \in BOOLEAN, netOk \in BOOLEAN : UnlockLockfiles(pr, rpcOk, netOk)
            \/ \E killOk \in BOOLEAN : DropServer(pr, killOk)
            \/ ChildBind(pr)
            \/ ChildExit(pr)

Spec == Init /\ [][Next]_vars

\* ------------------------------------------------------------------ the log policy alone
\* The values a caller may have given the two variables.
EnableValues == {Unset, Str("0"), Str("1"), Str(""), Str("true"), Str("00"),
                 Raw("0"), Raw("1")}
LogValues == {Unset, Str(SANDBOX_LOG_SUPPRESSED), Str("near=debug"), Str(""), Raw("near")}

InitEnv ==
    /\ InitServer
    /\ InitBuilder
    /\ env \in [NEAR_ENABLE_SANDBOX_LOG : EnableValues, NEAR_SANDBOX_LOG : LogValues]
    /\ env0 = env
    /\ envOnce = env
    /\ applied = 0

\* supress_sandbox_logs_if_required runs once more in the process.
SupressSandboxLogs ==
    /\ applied < MaxApplies
    /\ SupressStep
    /\ UNCHANGED <<serverVars, builderVars>>

NextEnv == SupressSandboxLogs

SpecEnv == InitEnv /\ [][NextEnv]_vars

\* ------------------------------------------------------------------ claims
\* The two reservations a launcher holds once both acquisitions have succeeded.
BothLocks(pr) == { <<pr, "rpc", rpc_port[pr]>>, <<pr, "net", net_port[pr]>> }

\* run_new returned Err after the RPC port was reserved, in the peer reservation.
FailedSecondAcquire(pr) ==
    pc[pr] = "failed" /\ rpc_port[pr] # None /\ net_port[pr] = None

\* run_new returned Err after both ports were reserved.
FailedAfterBoth(pr) ==
    pc[pr] = "failed" /\ rpc_port[pr] # None /\ net_port[pr] # None

\* C1: whatever the interleaving of the launchers' acquire_unused_port and
\* run_new executions, no port's lock file is exclusively locked by two
\* reservations at the same time.
C1_NoPortReservedTwice ==
    \A f \in flocks : \A g \in flocks : f[3] = g[3] => f = g

\* C1 witness: two launchers hold reservations at once and one of them is about
\* to try the lock of a port the other holds.
C1_Witness ==
    \E q \in Procs : \E pr \in (Procs \cup {Rival}) \ {q} :
        /\ HeldBy(flocks, pr) # {}
        /\ HeldBy(flocks, q) # {}
        /\ pc[q] = "lock_net"
        /\ port[q] \in LockedPorts(HeldBy(flocks, pr))

\* C2: an acquisition made while a reservation's lock is held never returns
\* that reservation's port: a candidate whose lock is held is discarded (no
\* lock taken, nothing returned) and the loop goes back to sampling.
C2_HeldPortNeverReturned ==
    /\ [][\A pr \in Procs : \A slot \in Slots :
          (pc[pr] = LockPc(slot) /\ pc'[pr] # pc[pr]
              /\ port[pr] \in LockedPorts(flocks))
          => /\ pc'[pr] = PickPc(slot)
             /\ flocks' = flocks
             /\ rpc_port'[pr] = rpc_port[pr]
             /\ net_port'[pr] = net_port[pr]]_vars
    /\ [][\A f \in flocks' \ flocks : f[3] \notin LockedPorts(flocks)]_vars

\* C2 witness: a launcher is back at sampling after its candidate, a port whose
\* lock another launcher still holds, was discarded.
C2_Witness ==
    \E q \in Procs : \E pr \in (Procs \cup {Rival}) \ {q} :
        /\ pc[q] = "pick_rpc"
        /\ port[q] # None
        /\ port[q] \in LockedPorts(HeldBy(flocks, pr))

\* C3: when run_new fails after both ports were reserved, the failure is the
\* launch's RunFailure and the launcher holds no lock afterwards.
C3_RunFailureReleasesBoth ==
    \A pr \in Procs :
        FailedAfterBoth(pr) =>
            /\ result[pr] = "RunFailure"
            /\ HeldBy(flocks, pr) = {}
            /\ rpc_port_lock[pr] = None
            /\ net_port_lock[pr] = None

\* C3 witness: a launch failed while the launcher held both locks.
C3_Witness ==
    \E pr \in Procs :
        FailedAfterBoth(pr) /\ result[pr] = "RunFailure" /\ runHeld[pr] = BothLocks(pr)

\* C4: when the RPC reservation succeeded and the peer reservation failed,
\* run_new returns the error with no lock held: the RPC lock was released.
C4_PartialFailureReleasesFirst ==
    \A pr \in Procs :
        FailedSecondAcquire(pr) =>
            /\ result[pr] \in {"InitFailure", "Io"}
            /\ HeldBy(flocks, pr) = {}
            /\ rpc_port_lock[pr] = None

\* C4 witness: the peer reservation failed after the RPC port was reserved.
C4_Witness ==
    \E pr \in Procs : FailedSecondAcquire(pr) /\ result[pr] = "InitFailure"

\* C5: after a successful run_new, an unlock_lockfiles call and the drop of
\* the server, the child is not running and neither of the server's ports is
\* locked or bound on its behalf.
C5_UnlockThenDropFreesAll ==
    \A pr \in Procs :
        (call[pr] = "run_new" /\ pc[pr] = "dropped" /\ unlockCalls[pr] >= 1) =>
            /\ ~ChildAlive(pr)
            /\ HeldBy(flocks, pr) = {}
            /\ server[pr].rpc_port_lock = None
            /\ server[pr].net_port_lock = None

\* C5 witness: after run_new, unlock_lockfiles and the drop, another launcher
\* has reserved both ports of the dropped server.
C5_Witness ==
    \E pr \in Procs : \E q \in (Procs \cup {Rival}) \ {pr} :
        /\ call[pr] = "run_new" /\ pc[pr] = "dropped" /\ unlockCalls[pr] >= 1
        /\ child[pr] = "killed"
        /\ {f[3] : f \in HeldBy(flocks, q)} = {rpc_port[pr], net_port[pr]}

\* C6: an unlock_lockfiles call on a server whose two locks are already
\* released returns Ok, makes no unlock call and changes nothing; and over any
\* calls followed by the drop, no lock handle is unlocked more than once and
\* none is still held after the drop.
C6_SecondUnlockIsNoOp ==
    /\ [](\A pr \in Procs :
            /\ unlockOps[pr].rpc <= 1
            /\ unlockOps[pr].net <= 1
            /\ (pc[pr] = "dropped" => HeldBy(flocks, pr) = {}))
    /\ [][\A pr \in Procs :
            (unlockCalls'[pr] = unlockCalls[pr] + 1
                /\ server[pr].rpc_port_lock = None
                /\ server[pr].net_port_lock = None)
            => /\ unlockResult'[pr] = "Ok"
               /\ unlockOps' = unlockOps
               /\ flocks' = flocks
               /\ server' = server
               /\ child' = child]_vars

\* C6 witness: a spawned server was unlocked twice, the second call returning
\* Ok, and then dropped.
C6_Witness ==
    \E pr \in Procs :
        /\ call[pr] = "run_new" /\ pc[pr] = "dropped"
        /\ unlockCalls[pr] = 2
        /\ unlockResult[pr] = "Ok"
        /\ unlockOps[pr] = [rpc |-> 1, net |-> 1]

\* C7 as stated: when the RPC-port unlock fails, the peer-port unlock is still
\* attempted in the same unlock_lockfiles call.
C7_PeerUnlockStillAttempted ==
    \A pr \in Procs :
        (call[pr] = "run_new" /\ unlockCalls[pr] = 1
            /\ unlockResult[pr] = "Io_rpc_port")
        => unlockOps[pr].net = 1

\* C7 amended: when the RPC-port unlock fails, unlock_lockfiles returns that
\* error at once without attempting the peer-port unlock; the peer lock stays
\* held in the server while it lives and is released by the drop at the latest.
C7_RpcFailureReturnsEarly ==
    \A pr \in Procs :
        (call[pr] = "run_new" /\ unlockCalls[pr] = 1
            /\ unlockResult[pr] = "Io_rpc_port")
        => /\ unlockOps[pr] = [rpc |-> 1, net |-> 0]
           /\ (pc[pr] = "live" =>
                  /\ server[pr].rpc_port_lock = None
                  /\ server[pr].net_port_lock = net_port[pr]
                  /\ HeldBy(flocks, pr) = {<<pr, "net", net_port[pr]>>})
           /\ (pc[pr] = "dropped" => HeldBy(flocks, pr) = {})

\* C7 witness: the first unlock_lockfiles call of a live server failed on the
\* RPC lock.
C7_Witness ==
    \E pr \in Procs :
        /\ pc[pr] = "live" /\ unlockCalls[pr] = 1
        /\ unlockResult[pr] = "Io_rpc_port"

\* C8: a server built by connect never owns a port lock, a peer port or a
\* child process; its unlock_lockfiles makes no unlock call and its drop never
\* attempts a kill.
C8_ConnectOwnsNothing ==
    \A pr \in Procs :
        call[pr] = "connect" =>
            /\ HeldBy(flocks, pr) = {}
            /\ server[pr].net_port = None
            /\ server[pr].rpc_port_lock = None
            /\ server[pr].net_port_lock = None
            /\ server[pr].process = None
            /\ child[pr] = "none"
            /\ unlockOps[pr] = [rpc |-> 0, net |-> 0]
            /\ unlockResult[pr] \in {"none", "Ok"}
            /\ killAttempts[pr] = 0
            /\ ~panicked[pr]

\* C8 witness: a connected server was unlocked and dropped.
C8_Witness ==
    \E pr \in Procs :
        /\ call[pr] = "connect" /\ pc[pr] = "dropped"
        /\ result[pr] = "Ok" /\ unlockCalls[pr] >= 1

\* C9: the drop of a server that owns a child process attempts to kill it,
\* and a child process exists only for a run_new that returned Ok with a
\* server owning it: no failed run_new or connect leaves a child behind.
C9_OwnedChildIsKilled ==
    \A pr \in Procs :
        /\ (pc[pr] = "dropped" /\ server[pr].process # None) => killAttempts[pr] = 1
        /\ (pc[pr] = "dropped" /\ killAttempts[pr] = 1) => ~ChildAlive(pr)
        /\ child[pr] # "none" =>
              /\ call[pr] = "run_new" /\ result[pr] = "Ok"
              /\ server[pr].process = pr
        /\ pc[pr] = "failed" => child[pr] = "none" /\ server[pr] = NoServer

\* C9 witness: a server owning a running child was dropped and the child killed.
C9_Witness ==
    \E pr \in Procs :
        /\ pc[pr] = "dropped" /\ server[pr].process # None
        /\ killAttempts[pr] = 1 /\ child[pr] = "killed"

\* C10: each reserved port's lock is held from its acquisition until
\* sandbox::run has been invoked: both locks are held at the moment of the
\* launch, and a lock is released only once the launch has failed or returned
\* a child (or run_new gave up before launching).
C10_LocksHeldAcrossLaunch ==
    \A pr \in Procs :
        /\ pc[pr] \in {"pick_net", "lock_net", "run"} =>
              <<pr, "rpc", rpc_port[pr]>> \in flocks
        /\ pc[pr] = "run" => <<pr, "net", net_port[pr]>> \in flocks
        /\ (result[pr] = "RunFailure" \/ child[pr] # "none") =>
              runHeld[pr] = BothLocks(pr)
        /\ (<<pr, "rpc", rpc_port[pr]>> \notin flocks /\ rpc_port[pr] # None) =>
              pc[pr] \in {"failed", "live", "dropped"}

\* C10 witness: a child was launched and is running while the launcher still
\* holds both locks it held at the launch.
C10_Witness ==
    \E pr \in Procs :
        /\ child[pr] = "listening"
        /\ runHeld[pr] = BothLocks(pr)
        /\ HeldBy(flocks, pr) = BothLocks(pr)

\* C11: connect with an endpoint that Url::parse rejects fails with
\* InitFailure, its message contains the endpoint as given, and no server is
\* constructed; with a well-formed endpoint it returns Ok and the server holds
\* the parsed endpoint and the caller's credential as given.
C11_ConnectValidatesEndpoint ==
    \A pr \in Procs :
        call[pr] = "connect" =>
            IF UrlParse(args[pr].rpc_addr).ok
            THEN /\ result[pr] = "Ok"
                 /\ pc[pr] \in {"live", "dropped"}
                 /\ server[pr].validator_key = args[pr].validator_key
                 /\ server[pr].rpc_addr = UrlParse(args[pr].rpc_addr)
            ELSE /\ result[pr] = "InitFailure"
                 /\ pc[pr] = "failed"
                 /\ Contains(message[pr], args[pr].rpc_addr)
                 /\ server[pr] = NoServer

\* C11 witness: one launcher or another was refused the malformed endpoint
\* "http//localhost".
C11_Witness ==
    \E pr \in Procs :
        /\ call[pr] = "connect" /\ result[pr] = "InitFailure"
        /\ args[pr].rpc_addr = <<"http", "//", "localhost">>
        /\ message[pr] = <<"Invalid rpc_url=", "http", "//", "localhost">>

\* The variable is unset or holds exactly the Unicode string "0".
UnsetOrZero(v) == v = Unset \/ v = Str("0")

\* The variable is set to a value that is not valid Unicode.
NotUnicode(v) == v # Unset /\ ~v[1].unicode

\* C12 as stated: once supress_sandbox_logs_if_required has run, NEAR_SANDBOX_LOG
\* is the suppression string exactly when NEAR_ENABLE_SANDBOX_LOG was unset or
\* "0" and is untouched for any other value; further runs change nothing.
C12_SuppressedIffUnsetOrZero ==
    applied >= 1 =>
        /\ env.NEAR_SANDBOX_LOG =
              IF UnsetOrZero(env0.NEAR_ENABLE_SANDBOX_LOG)
              THEN Str(SANDBOX_LOG_SUPPRESSED) ELSE env0.NEAR_SANDBOX_LOG
        /\ env.NEAR_ENABLE_SANDBOX_LOG = env0.NEAR_ENABLE_SANDBOX_LOG
        /\ env = envOnce

\* C12 amended: NEAR_SANDBOX_LOG is set to the suppression string exactly when
\* NEAR_ENABLE_SANDBOX_LOG is unset, is not valid Unicode, or equals "0"; for
\* any other value it is untouched; further runs change nothing.
C12_SuppressedIffNotReadableOrZero ==
    applied >= 1 =>
        /\ env.NEAR_SANDBOX_LOG =
              IF UnsetOrZero(env0.NEAR_ENABLE_SANDBOX_LOG)
                 \/ NotUnicode(env0.NEAR_ENABLE_SANDBOX_LOG)
              THEN Str(SANDBOX_LOG_SUPPRESSED) ELSE env0.NEAR_SANDBOX_LOG
        /\ env.NEAR_ENABLE_SANDBOX_LOG = env0.NEAR_ENABLE_SANDBOX_LOG
        /\ env = envOnce

\* C12 witness: the policy ran more than once with NEAR_ENABLE_SANDBOX_LOG=0
\* over a caller's own NEAR_SANDBOX_LOG, which it replaced.
C12_Witness ==
    /\ applied >= 2
    /\ env0.NEAR_ENABLE_SANDBOX_LOG = Str("0")
    /\ env0.NEAR_SANDBOX_LOG = Str("near=debug")
    /\ env.NEAR_SANDBOX_LOG = Str(SANDBOX_LOG_SUPPRESSED)

\* C13: a run_new that returned Ok returned a server whose endpoint is
\* http://localhost:<the reserved RPC port>, whose net_port is the reserved
\* peer port, whose child handle is present and whose validator_key is HomeDir
\* of the directory init_home_dir made; until unlock_lockfiles or the drop, it
\* holds both lock handles and both locks are held.
C13_RunNewReturnsFullServer ==
    \A pr \in Procs :
        (call[pr] = "run_new" /\ result[pr] = "Ok") =>
            /\ rpc_port[pr] \in Ports /\ net_port[pr] \in Ports
            /\ server[pr].rpc_addr = [ok |-> TRUE, scheme |-> "http",
                                      host |-> "localhost", port |-> rpc_port[pr]]
            /\ RpcAddrOf(server[pr]) =
                  <<"http", "://", "localhost", ":", rpc_port[pr], "/">>
            /\ NetPortOf(server[pr]) = net_port[pr]
            /\ server[pr].process = pr
            /\ home_dir[pr] = pr
            /\ server[pr].validator_key = HomeDir(home_dir[pr])
            /\ (pc[pr] = "live" /\ unlockCalls[pr] = 0) =>
                  /\ server[pr].rpc_port_lock = rpc_port[pr]
                  /\ server[pr].net_port_lock = net_port[pr]
                  /\ HeldBy(flocks, pr) = BothLocks(pr)
                  /\ rpc_port_lock[pr] = None /\ net_port_lock[pr] = None

\* C13 witness: run_new has just returned Ok.
C13_Witness ==
    \E pr \in Procs :
        /\ call[pr] = "run_new" /\ result[pr] = "Ok"
        /\ pc[pr] = "live" /\ unlockCalls[pr] = 0
        /\ child[pr] = "running"

\* run_new failed in init_home_dir or in set_sandbox_configs: the errors of
\* these two carry no message of this module.
FailedBeforePorts(pr) ==
    /\ call[pr] = "run_new" /\ pc[pr] = "failed"
    /\ \/ result[pr] = "ConfigError"
       \/ result[pr] \in {"Io", "InitFailure"} /\ message[pr] = NoMessage

\* C14: when init_home_dir or set_sandbox_configs fails, run_new returns that
\* error having sampled no port, reserved no port, locked no lock file and
\* spawned no child.
C14_EarlyFailureTouchesNothing ==
    \A pr \in Procs :
        FailedBeforePorts(pr) =>
            /\ port[pr] = None
            /\ rpc_port[pr] = None /\ net_port[pr] = None
            /\ rpc_port_lock[pr] = None /\ net_port_lock[pr] = None
            /\ HeldBy(flocks, pr) = {}
            /\ runHeld[pr] = {}
            /\ child[pr] = "none"
            /\ server[pr] = NoServer

\* C14 witness: the configuration patch failed after the home directory was
\* made, while another launcher holds a lock.
C14_Witness ==
    \E pr \in Procs :
        /\ FailedBeforePorts(pr)
        /\ result[pr] = "ConfigError"
        /\ home_dir[pr] # None
        /\ HeldBy(flocks, Rival) # {}

\* The positions of a launcher inside acquire_unused_port.
PickPcs == { PickPc(slot) : slot \in Slots }
LockPcs == { LockPc(slot) : slot \in Slots }

\* C15: a step of acquire_unused_port in which pick_unused_port gave no port
\* ends the call with InitFailure, with no further sample and no lock held by
\* the launcher; a step that finds the sampled port's lock held reports no
\* error, takes no lock and goes back to sampling; and an ended call stays ended.
C15_NoPortFailsContentionResamples ==
    [][\A pr \in Procs :
        /\ (pc[pr] \in PickPcs /\ pc'[pr] = "failed"
                /\ message'[pr] = <<"no ports free">>) =>
              /\ result'[pr] = "InitFailure"
              /\ port'[pr] = port[pr]
              /\ HeldBy(flocks', pr) = {}
        /\ (pc[pr] \in PickPcs /\ pc'[pr] = "failed") =>
              message'[pr][1] \in {"no ports free", "failed to create lockfile for port "}
        /\ (pc[pr] \in LockPcs /\ pc'[pr] # pc[pr]) =>
              IF port[pr] \in LockedPorts(flocks)
              THEN /\ pc'[pr] \in PickPcs
                   /\ LockPc(CHOOSE slot \in Slots : PickPc(slot) = pc'[pr]) = pc[pr]
                   /\ result'[pr] = "pending" /\ message'[pr] = NoMessage
                   /\ HeldBy(flocks', pr) = HeldBy(flocks, pr)
              ELSE /\ pc'[pr] \notin PickPcs \cup {"failed"} \/ pc'[pr] = "pick_net"
                   /\ port[pr] \in LockedPorts(HeldBy(flocks', pr))
        /\ pc[pr] = "failed" => pc'[pr] = "failed"
      ]_vars

\* C15 witness: the peer acquisition sampled a port other than the reserved RPC
\* port, found its lock held, sampled again and was given no port.
C15_Witness ==
    \E pr \in Procs :
        /\ pc[pr] = "failed" /\ result[pr] = "InitFailure"
        /\ message[pr] = <<"no ports free">>
        /\ rpc_port[pr] # None /\ net_port[pr] = None
        /\ port[pr] \notin {None, rpc_port[pr]}
        /\ HeldBy(flocks, pr) = {}

\* ------------------------------------------------------------------ the builder
\* The networks a builder is made for, the networks from_builder can hand back
\* and the errors it can fail with.
Names == {"sandbox", "testnet"}
Networks == {"network_a", "network_b"}
BuildErrors == {"InitFailure", "Io"}

\* NetworkBuilder::new
NetworkBuilderNew(name) ==
    [name |-> name, rpc_addr |-> Nothing, validator_key |-> Nothing]

\* A setter that forgets the validator key override.
rpc_addr_resets_key(b, addr) ==
    [b EXCEPT !.rpc_addr = Some(addr), !.validator_key = Nothing]

\* NetworkBuilder::rpc_addr
rpc_addr_setter(b, addr) == [b EXCEPT !.rpc_addr = Some(addr)]

\* NetworkBuilder<Sandbox>::validator_key
validator_key_setter(b, key) == [b EXCEPT !.validator_key = Some(key)]

\* Worker::new(network)
WorkerNew(network) == [workspace |-> network]

\* The body of the future: from_builder(self).await? and then Ok(Worker::new(..)).
IntoFutureOutput(r) ==
    IF r.ok
    THEN [ok |-> TRUE, worker |-> Some(WorkerNew(r.network)), err |-> ""]
    ELSE [ok |-> FALSE, worker |-> Nothing, err |-> r.err]

New(name) ==
    /\ bpc = "none"
    /\ builder' = NetworkBuilderNew(name)
    /\ bpc' = "building"
    /\ lastOp' = "new"
    /\ UNCHANGED <<setterCalls, fromBuilderCalls, received, returned, output>>
    /\ UNCHANGED <<serverVars, envVars>>

SetRpcAddr(addr) ==
    /\ bpc = "building"
    /\ setterCalls < MaxSetterCalls
    /\ builder' = rpc_addr_setter(builder, addr)
    /\ setterCalls' = setterCalls + 1
    /\ lastOp' = "rpc_addr"
    /\ UNCHANGED <<bpc, fromBuilderCalls, received, returned, output>>
    /\ UNCHANGED <<serverVars, envVars>>

\* The validator_key setter exists for the sandbox network only.
SetValidatorKey(key) ==
    /\ bpc = "building"
    /\ builder.name = "sandbox"
    /\ setterCalls < MaxSetterCalls
    /\ builder' = validator_key_setter(builder, key)
    /\ setterCalls' = setterCalls + 1
    /\ lastOp' = "validator_key"
    /\ UNCHANGED <<bpc, fromBuilderCalls, received, returned, output>>
    /\ UNCHANGED <<serverVars, envVars>>

\* into_future moves the builder into a boxed future; nothing runs yet.
IntoFuture ==
    /\ bpc = "building"
    /\ bpc' = "future"
    /\ lastOp' = "into_future"
    /\ UNCHANGED <<builder, setterCalls, fromBuilderCalls, received, returned, output>>
    /\ UNCHANGED <<serverVars, envVars>>

\* The future is polled: it calls from_builder with the builder it holds.
FromBuilderCall ==
    /\ bpc = "future"
    /\ fromBuilderCalls' = fromBuilderCalls + 1
    /\ received' = builder
    /\ bpc' = "called"
    /\ lastOp' = "from_builder"
    /\ UNCHANGED <<builder, setterCalls, returned, output>>
    /\ UNCHANGED <<serverVars, envVars>>

\* from_builder returns r and the future resolves.
FromBuilderReturn(r) ==
    /\ bpc = "called"
    /\ returned' = r
    /\ output' = IntoFutureOutput(r)
    /\ bpc' = "resolved"
    /\ lastOp' = "resolved"
    /\ UNCHANGED <<builder, setterCalls, fromBuilderCalls, received>>
    /\ UNCHANGED <<serverVars, envVars>>

\* What from_builder can return.
FromBuilderResults ==
    { [ok |-> TRUE, network |-> n, err |-> ""] : n \in Networks }
        \cup { [ok |-> FALSE, network |-> "", err |-> e] : e \in BuildErrors }

NextBuilder ==
    \/ \E name \in Names : New(name)
    \/ \E addr \in Endpoints : SetRpcAddr(addr)
    \/ \E key \in CallerKeys : SetValidatorKey(key)
    \/ IntoFuture
    \/ FromBuilderCall
    \/ \E r \in FromBuilderResults : FromBuilderReturn(r)

SpecBuilder == Init /\ [][NextBuilder]_vars

\* ------------------------------------------------------------------ fair acquisition
\* The thread that runs acquire_unused_port keeps running (try_lock_exclusive
\* does not block, so the end of a turn is always taken), and the sampling is
\* fair: a port that can be sampled again and again, and whose lock file can
\* be opened, is sampled at some turn.
FairAcquire ==
    \A pr \in Procs : \A slot \in Slots :
        /\ WF_vars(TryLock(pr, slot))
        /\ \A p \in Ports : SF_vars(PickPort(pr, slot, p, TRUE))

\* The launches alone: run_new of every launcher up to the started node, the
\* node's binding of its ports, and the other launchers' locks.
NextLaunch ==
    \/ \E p \in Ports : RivalAcquire(p)
    \/ \E p \in Ports : RivalRelease(p)
    \/ \E pr \in Procs :
            \/ \E outcome \in InitOutcomes : InitHomeDir(pr, outcome)
            \/ \E ok \in BOOLEAN : SetSandboxConfigs(pr, ok)
            \/ \E slot \in Slots, picked \in PickOutcomes, created \in BOOLEAN :
                    PickPort(pr, slot, picked, created)
            \/ \E slot \in Slots : TryLock(pr, slot)
            \/ \E ok \in BOOLEAN : SandboxRun(pr, ok)
            \/ ChildBind(pr)

SpecFair == Init /\ [][NextLaunch]_vars /\ FairAcquire

\* Launcher pr is inside the acquire_unused_port call that fills slot.
InAcquire(pr, slot) == pc[pr] \in {PickPc(slot), LockPc(slot)}

\* The call that fills slot returned (port, lockfile) to launcher pr, and the
\* lock is held.
Acquired(pr, slot) ==
    IF slot = "rpc"
    THEN rpc_port[pr] # None /\ <<pr, "rpc", rpc_port[pr]>> \in flocks
    ELSE net_port[pr] # None /\ <<pr, "net", net_port[pr]>> \in flocks

\* The call that fills slot returned an error to launcher pr.
AcquireFailed(pr, slot) ==
    /\ pc[pr] = "failed"
    /\ message[pr] # NoMessage
    /\ (slot = "rpc") = (rpc_port[pr] = None)

\* Port p stays free, with its lock file not held, for as long as launcher pr
\* is inside the call that fills slot.
KeepsAvailable(pr, slot, p) ==
    [](InAcquire(pr, slot) => (p \in FreePorts /\ p \notin LockedPorts(flocks)))

\* C16 as stated: with fair sampling and a port that stays free and unlocked,
\* every acquire_unused_port call eventually returns a port with its held lock.
C16_AcquireReturnsPort ==
    \A pr \in Procs : \A slot \in Slots : \A p \in Ports :
        KeepsAvailable(pr, slot, p) =>
            (InAcquire(pr, slot) ~> Acquired(pr, slot))

\* C16, amended: with fair sampling and a port that stays free and unlocked,
\* every acquire_unused_port call eventually returns, with a port and its
\* held lock or with an error (no port supplied, or a lock file that could
\* not be created); it never stays in the loop.
C16_AcquireReturns ==
    \A pr \in Procs : \A slot \in Slots : \A p \in Ports :
        KeepsAvailable(pr, slot, p) =>
            (InAcquire(pr, slot) ~> (Acquired(pr, slot) \/ AcquireFailed(pr, slot)))

\* C16 witness: the RPC acquisition returned a port with its held lock while
\* another launcher holds the lock of another port.
C16_Witness ==
    \E pr \in Procs :
        /\ pc[pr] = "pick_net" /\ Acquired(pr, "rpc")
        /\ HeldBy(flocks, Rival) # {}

\* A server made by run_new was dropped and unlock_lockfiles was never called.
DroppedWithoutUnlock(pr) ==
    call[pr] = "run_new" /\ pc[pr] = "dropped" /\ unlockCalls[pr] = 0

\* C17: after the drop of a run_new server on which unlock_lockfiles was never
\* called, both port locks are released (the handles are closed with the
\* structure, no unlock call is made), the kill was attempted and the child is
\* not alive; the drop panics only when the kill of a child that had already
\* exited fails, never on account of the locks.
C17_DropWithoutUnlockReleases ==
    \A pr \in Procs :
        DroppedWithoutUnlock(pr) =>
            /\ HeldBy(flocks, pr) = {}
            /\ server[pr].rpc_port_lock = None
            /\ server[pr].net_port_lock = None
            /\ unlockOps[pr] = [rpc |-> 0, net |-> 0]
            /\ runHeld[pr] = BothLocks(pr)
            /\ killAttempts[pr] = 1
            /\ child[pr] \in {"killed", "exited"}
            /\ panicked[pr] => child[pr] = "exited"

\* C17 witness: a server whose node was listening was dropped without an
\* unlock_lockfiles call and its node was killed.
C17_Witness ==
    \E pr \in Procs :
        /\ DroppedWithoutUnlock(pr)
        /\ child[pr] = "killed" /\ ~panicked[pr]
        /\ rpc_port[pr] \notin LockedPorts(flocks)
        /\ net_port[pr] \notin LockedPorts(flocks)

\* C18: a new NetworkBuilder has the given name and neither override; a setter
\* changes its own field to the given value and no other field; the future
\* calls from_builder at most once, and exactly once when it has resolved, with
\* the builder as it was accumulated; it resolves to a Worker around the
\* network from_builder returned, or to from_builder's error and no Worker.
C18_BuilderAccumulatesAndResolvesOnce ==
    /\ [](/\ lastOp = "new" =>
                /\ builder.name \in Names
                /\ builder.rpc_addr = Nothing /\ builder.validator_key = Nothing
          /\ fromBuilderCalls <= 1
          /\ bpc \in {"called", "resolved"} =>
                fromBuilderCalls = 1 /\ received = builder
          /\ bpc = "resolved" =>
                IF returned.ok
                THEN /\ output.ok
                     /\ output.worker = Some([workspace |-> returned.network])
                ELSE /\ ~output.ok
                     /\ output.worker = Nothing
                     /\ output.err = returned.err /\ output.err \in BuildErrors
          /\ bpc \notin {"resolved"} => output = NoOutput)
    /\ [][
          /\ lastOp' = "rpc_addr" =>
                /\ builder'.rpc_addr # Nothing
                /\ builder' = [builder EXCEPT !.rpc_addr = builder'.rpc_addr]
          /\ lastOp' = "validator_key" =>
                /\ builder'.validator_key # Nothing
                /\ builder' = [builder EXCEPT !.validator_key = builder'.validator_key]
          /\ lastOp' \notin {"new", "rpc_addr", "validator_key"} => builder' = builder
         ]_builderVars

\* C18 witness: a builder that was given both overrides resolved to a Worker.
C18_Witness ==
    /\ bpc = "resolved" /\ output.ok
    /\ received.rpc_addr # Nothing /\ received.validator_key # Nothing
    /\ fromBuilderCalls = 1

\* C19: the server of a run_new that returned Ok has an RPC port and a peer
\* port that differ: while the peer port is acquired the RPC lock is held, so
\* a peer candidate equal to the RPC port fails try_lock_exclusive.
C19_RpcAndPeerPortsDiffer ==
    \A pr \in Procs :
        /\ (pc[pr] = "lock_net" /\ port[pr] = rpc_port[pr]) =>
              /\ <<pr, "rpc", rpc_port[pr]>> \in flocks
              /\ ~TryLockExclusive(flocks, pr, port[pr])
        /\ pc[pr] = "run" => rpc_port[pr] # net_port[pr]
        /\ (call[pr] = "run_new" /\ result[pr] = "Ok") =>
              /\ rpc_port[pr] # net_port[pr]
              /\ RpcPortOf(server[pr]) \in Ports
              /\ NetPortOf(server[pr]) \in Ports
              /\ RpcPortOf(server[pr]) # NetPortOf(server[pr])

\* C19 witness: a launched server whose node listens on its two ports.
C19_Witness ==
    \E pr \in Procs :
        /\ call[pr] = "run_new" /\ result[pr] = "Ok" /\ pc[pr] = "live"
        /\ child[pr] = "listening"
        /\ BoundPorts = {RpcPortOf(server[pr]), NetPortOf(server[pr])}
        /\ Cardinality(BoundPorts) = 2

\* The fields of a server that unlock_lockfiles is not to touch, with what
\* the accessors rpc_addr, rpc_port and net_port return.
Untouched(s) ==
    [validator_key |-> s.validator_key,
     rpc_addr_field |-> s.rpc_addr,
     process |-> s.process,
     rpc_addr |-> RpcAddrOf(s),
     rpc_port |-> RpcPortOf(s),
     net_port |-> NetPortOf(s)]

\* C20: an unlock_lockfiles call, whether it returns Ok or an error, changes
\* nothing but the two lock fields (and the flocks they hold): the child is
\* still owned and has not been killed, and rpc_addr, rpc_port(), net_port()
\* and validator_key are what they were.
C20_UnlockTouchesOnlyLocks ==
    [][\A pr \in Procs :
          unlockCalls'[pr] # unlockCalls[pr] =>
              /\ unlockResult'[pr] \in {"Ok", "Io_rpc_port", "Io_net_port"}
              /\ Untouched(server'[pr]) = Untouched(server[pr])
              /\ child'[pr] = child[pr]
              /\ killAttempts'[pr] = killAttempts[pr]
              /\ pc'[pr] = "live"
              /\ HeldBy(flocks', pr) \subseteq HeldBy(flocks, pr)
              /\ flocks' \ HeldBy(flocks', pr) = flocks \ HeldBy(flocks, pr)
      ]_vars

\* C20 witness: unlock_lockfiles returned an error on a launched server whose
\* node is still listening and not killed.
C20_Witness ==
    \E pr \in Procs :
        /\ call[pr] = "run_new" /\ pc[pr] = "live"
        /\ unlockCalls[pr] = 1 /\ unlockResult[pr] = "Io_net_port"
        /\ server[pr].process = pr /\ child[pr] = "listening"
        /\ killAttempts[pr] = 0
        /\ RpcPortOf(server[pr]) = rpc_port[pr]
        /\ NetPortOf(server[pr]) = net_port[pr]

====
